---- MODULE Spec2Model ----
(***************************************************************************)
(* Model of structure/heap/heap.go: a generic array-backed binary heap     *)
(* ordered by a comparator held in the heap (lessFunc).                    *)
(*                                                                         *)
(* Go slices are 0-based and TLA+ sequences 1-based: every index below is  *)
(* the 0-based index of the source, and At(s, i) reads s[i + 1].           *)
(***************************************************************************)
EXTENDS Integers, Sequences, FiniteSets, Bags, TLC

\* ------------------------------------------------------------- bounds ----
\* Elements pushed in the free-running specification are drawn from 1..MaxVal.
MaxVal == 3
\* At most MaxPush calls of Push in a run of the free-running specification.
MaxPush == 5
\* At most MaxPop calls of Pop in a run of the free-running specification.
MaxPop == 6
\* The sorted-extraction scenario pushes n <= MaxN distinct values of 1..MaxN.
MaxN == 5
\* The two concurrent callers start on a heap built by at most MaxInit pushes.
MaxInit == 2

Values == 1..MaxVal

\* The comparators a caller may pass: a < b (the default of New), a > b,
\* a strict weak order with ties (2 and 3 are equivalent), and a cyclic,
\* irreflexive but non-transitive predicate (1 before 2 before 3 before 1),
\* and a != b, which is irreflexive but symmetric. "nil" is the nil func.
Comparators == {"lt", "gt", "div2", "cyc", "ne"}

ApplyLess(f, a, b) ==
    CASE f = "lt"   -> a < b
      [] f = "gt"   -> a > b
      [] f = "div2" -> (a \div 2) < (b \div 2)
      [] f = "cyc"  -> (b - a) % 3 = 1
      [] f = "ne"   -> a # b

\* f is a strict weak order on the set S.
IsStrictWeakOrder(f, S) ==
    /\ \A a \in S : ~ApplyLess(f, a, a)
    /\ \A a, b, c \in S :
          ApplyLess(f, a, b) /\ ApplyLess(f, b, c) => ApplyLess(f, a, c)
    /\ \A a, b, c \in S :
          (/\ ~ApplyLess(f, a, b) /\ ~ApplyLess(f, b, a)
           /\ ~ApplyLess(f, b, c) /\ ~ApplyLess(f, c, b))
          => (~ApplyLess(f, a, c) /\ ~ApplyLess(f, c, a))

\* ------------------------------------------------------------ helpers ----
At(s, i) == s[i + 1]
InRange(s, i) == 0 <= i /\ i < Len(s)
Elems(s) == {s[k] : k \in DOMAIN s}
SeqToBag(s) == [v \in Elems(s) |-> Cardinality({k \in DOMAIN s : s[k] = v})]

\* The running state of one call: the slice, the number of comparator calls
\* and swaps made so far, whether the call has panicked (a Go index out of
\* range; a panic unwinds the call, which leaves the slice as it is), and
\* the trace of the steps the call has made.
Call(s) == [heaps |-> s, calls |-> 0, swaps |-> 0, panic |-> FALSE,
            trace |-> <<>>]

\* One step of a call: ev is "up", "down", "swap" or "top"; index is the
\* index the step was called with (i for swap) and to the index it chose
\* (the parent for up, smallest for down, j for swap); swapped says whether
\* the step exchanged the two; idx are the indices of h.heaps the step read
\* or wrote, and heaps is the slice when the step began.
Event(ev, index, to, swapped, idx, s) ==
    [ev |-> ev, index |-> index, to |-> to, swapped |-> swapped,
     idx |-> idx, heaps |-> s]

Log(st, e) == [st EXCEPT !.trace = Append(@, e)]

\* ---------------------------------------------------------- the heap -----
\* Mutant of NewAny: the nil check is missing.
NewAny_noNilCheck(less) ==
    [h |-> "heap", heaps |-> <<>>, lessFunc |-> less, err |-> "nil"]

\* NewAny: (nil, error) for a nil comparator, else an empty heap and no error.
NewAny(less) ==
    IF less = "nil"
    THEN [h |-> "nil", heaps |-> <<>>, lessFunc |-> "nil", err |-> "error"]
    ELSE [h |-> "heap", heaps |-> <<>>, lessFunc |-> less, err |-> "nil"]

\* New: NewAny with defaultLess (a < b); the error is dropped.
New == [NewAny("lt") EXCEPT !.err = "nil"]

\* Mutant of Empty: off by one.
Empty_offByOne(s) == Len(s) <= 1

Empty(s) == Len(s) = 0

Size(s) == Len(s)

\* Mutant of swap: h.heaps[i] = h.heaps[j], the old h.heaps[i] is lost.
swap_copy(st, i, j) ==
    LET e == Event("swap", i, j, TRUE, {i, j}, st.heaps) IN
    IF st.panic THEN st
    ELSE IF ~(InRange(st.heaps, i) /\ InRange(st.heaps, j))
    THEN [Log(st, e) EXCEPT !.panic = TRUE]
    ELSE [Log(st, e) EXCEPT
             !.heaps = [k \in DOMAIN st.heaps |->
                          IF k = i + 1 THEN At(st.heaps, j)
                          ELSE st.heaps[k]],
             !.swaps = @ + 1]

\* swap: h.heaps[i], h.heaps[j] = h.heaps[j], h.heaps[i]
swap(st, i, j) ==
    LET e == Event("swap", i, j, TRUE, {i, j}, st.heaps) IN
    IF st.panic THEN st
    ELSE IF ~(InRange(st.heaps, i) /\ InRange(st.heaps, j))
    THEN [Log(st, e) EXCEPT !.panic = TRUE]
    ELSE [Log(st, e) EXCEPT
             !.heaps = [k \in DOMAIN st.heaps |->
                          IF k = i + 1 THEN At(st.heaps, j)
                          ELSE IF k = j + 1 THEN At(st.heaps, i)
                          ELSE st.heaps[k]],
             !.swaps = @ + 1]

RECURSIVE up(_, _, _)

\* Mutant of up: one swap with the parent, no recursive call on the parent.
up_noRecurse(f, st, index) ==
    IF st.panic \/ index <= 0 THEN st
    ELSE LET parent == (index - 1) \div 2
             e(b) == Event("up", index, parent, b, {index, parent}, st.heaps)
         IN
         IF ~(InRange(st.heaps, index) /\ InRange(st.heaps, parent))
         THEN [Log(st, e(FALSE)) EXCEPT !.panic = TRUE]
         ELSE LET b == ApplyLess(f, At(st.heaps, index), At(st.heaps, parent))
                  st1 == [Log(st, e(b)) EXCEPT !.calls = @ + 1]
              IN IF b
                 THEN swap(st1, index, parent)
                 ELSE st1

\* Mutant of up: the parent is taken to be index - 1, the element before.
RECURSIVE up_linear(_, _, _)
up_linear(f, st, index) ==
    IF st.panic \/ index <= 0 THEN st
    ELSE LET parent == index - 1
             e(b) == Event("up", index, parent, b, {index, parent}, st.heaps)
         IN
         IF ~(InRange(st.heaps, index) /\ InRange(st.heaps, parent))
         THEN [Log(st, e(FALSE)) EXCEPT !.panic = TRUE]
         ELSE LET b == ApplyLess(f, At(st.heaps, index), At(st.heaps, parent))
                  st1 == [Log(st, e(b)) EXCEPT !.calls = @ + 1]
              IN IF b
                 THEN up_linear(f, swap(st1, index, parent), parent)
                 ELSE st1

\* Mutant of up: the parent index is rounded up, (index + 1) / 2, so the
\* parent of index 1 is index 1.
RECURSIVE up_parentRoundsUp(_, _, _)
up_parentRoundsUp(f, st, index) ==
    IF st.panic \/ index <= 0 THEN st
    ELSE LET parent == (index + 1) \div 2
             e(b) == Event("up", index, parent, b, {index, parent}, st.heaps)
         IN
         IF ~(InRange(st.heaps, index) /\ InRange(st.heaps, parent))
         THEN [Log(st, e(FALSE)) EXCEPT !.panic = TRUE]
         ELSE LET b == ApplyLess(f, At(st.heaps, index), At(st.heaps, parent))
                  st1 == [Log(st, e(b)) EXCEPT !.calls = @ + 1]
              IN IF b
                 THEN up_parentRoundsUp(f, swap(st1, index, parent), parent)
                 ELSE st1

\* Mutant of up: swaps unless the parent strictly precedes the element, so
\* also on equal priority.
RECURSIVE up_swapTies(_, _, _)
up_swapTies(f, st, index) ==
    IF st.panic \/ index <= 0 THEN st
    ELSE LET parent == (index - 1) \div 2
             e(b) == Event("up", index, parent, b, {index, parent}, st.heaps)
         IN
         IF ~(InRange(st.heaps, index) /\ InRange(st.heaps, parent))
         THEN [Log(st, e(FALSE)) EXCEPT !.panic = TRUE]
         ELSE LET b == ~ApplyLess(f, At(st.heaps, parent), At(st.heaps, index))
                  st1 == [Log(st, e(b)) EXCEPT !.calls = @ + 1]
              IN IF b
                 THEN up_swapTies(f, swap(st1, index, parent), parent)
                 ELSE st1

\* up: bubble the element at index towards the root.
up(f, st, index) ==
    IF st.panic \/ index <= 0 THEN st
    ELSE LET parent == (index - 1) \div 2
             e(b) == Event("up", index, parent, b, {index, parent}, st.heaps)
         IN
         IF ~(InRange(st.heaps, index) /\ InRange(st.heaps, parent))
         THEN [Log(st, e(FALSE)) EXCEPT !.panic = TRUE]
         ELSE LET b == ApplyLess(f, At(st.heaps, index), At(st.heaps, parent))
                  st1 == [Log(st, e(b)) EXCEPT !.calls = @ + 1]
              IN IF b
                 THEN up(f, swap(st1, index, parent), parent)
                 ELSE st1

RECURSIVE down(_, _, _)

\* Mutant of down: the right child is compared against index, not against
\* the current smallest.
RECURSIVE down_rightVsIndex(_, _, _)
down_rightVsIndex(f, st, index) ==
    IF st.panic THEN st
    ELSE LET s == st.heaps
             left == 2 * index + 1
             right == 2 * index + 2
             lcall == left < Len(s)
             smallest1 == IF lcall /\ ApplyLess(f, At(s, left), At(s, index))
                          THEN left ELSE index
             rcall == right < Len(s)
             smallest == IF rcall /\ ApplyLess(f, At(s, right), At(s, index))
                         THEN right ELSE smallest1
             idx == (IF lcall THEN {left, index} ELSE {})
                      \cup (IF rcall THEN {right, index} ELSE {})
             e == Event("down", index, smallest, smallest # index, idx, s)
             st1 == [Log(st, e) EXCEPT !.calls = @ + (IF lcall THEN 1 ELSE 0)
                                                 + (IF rcall THEN 1 ELSE 0)]
         IN IF lcall /\ ~InRange(s, index)
            THEN [Log(st, Event("down", index, index, FALSE, {left, index}, s))
                     EXCEPT !.panic = TRUE]
            ELSE IF smallest # index
            THEN down_rightVsIndex(f, swap(st1, index, smallest), smallest)
            ELSE st1

\* Mutant of down: the bound check of the left child is left <= len, so
\* h.heaps[len] is read.
RECURSIVE down_leftBound(_, _, _)
down_leftBound(f, st, index) ==
    IF st.panic THEN st
    ELSE LET s == st.heaps
             left == 2 * index + 1
             right == 2 * index + 2
             lcall == left <= Len(s)
             smallest1 == IF lcall /\ ApplyLess(f, At(s, left), At(s, index))
                          THEN left ELSE index
             rcall == right < Len(s)
             smallest == IF rcall /\ ApplyLess(f, At(s, right), At(s, smallest1))
                         THEN right ELSE smallest1
             idx == (IF lcall THEN {left, index} ELSE {})
                      \cup (IF rcall THEN {right, smallest1} ELSE {})
             e == Event("down", index, smallest, smallest # index, idx, s)
             st1 == [Log(st, e) EXCEPT !.calls = @ + (IF lcall THEN 1 ELSE 0)
                                                 + (IF rcall THEN 1 ELSE 0)]
         IN IF lcall /\ ~InRange(s, left)
            THEN [Log(st, Event("down", index, index, FALSE, {left, index}, s))
                     EXCEPT !.panic = TRUE]
            ELSE IF smallest # index
            THEN down_leftBound(f, swap(st1, index, smallest), smallest)
            ELSE st1

\* Mutant of down: the right child is never looked at.
RECURSIVE down_leftOnly(_, _, _)
down_leftOnly(f, st, index) ==
    IF st.panic THEN st
    ELSE LET s == st.heaps
             left == 2 * index + 1
             lcall == left < Len(s)
             smallest == IF lcall /\ ApplyLess(f, At(s, left), At(s, index))
                         THEN left ELSE index
             idx == IF lcall THEN {left, index} ELSE {}
             e == Event("down", index, smallest, smallest # index, idx, s)
             st1 == [Log(st, e) EXCEPT !.calls = @ + (IF lcall THEN 1 ELSE 0)]
         IN IF lcall /\ ~InRange(s, index)
            THEN [Log(st, Event("down", index, index, FALSE, {left, index}, s))
                     EXCEPT !.panic = TRUE]
            ELSE IF smallest # index
            THEN down_leftOnly(f, swap(st1, index, smallest), smallest)
            ELSE st1

\* down: sink the element at index towards the leaves.
down(f, st, index) ==
    IF st.panic THEN st
    ELSE LET s == st.heaps
             left == 2 * index + 1
             right == 2 * index + 2
             lcall == left < Len(s)
             smallest1 == IF lcall /\ ApplyLess(f, At(s, left), At(s, index))
                          THEN left ELSE index
             rcall == right < Len(s)
             smallest == IF rcall /\ ApplyLess(f, At(s, right), At(s, smallest1))
                         THEN right ELSE smallest1
             idx == (IF lcall THEN {left, index} ELSE {})
                      \cup (IF rcall THEN {right, smallest1} ELSE {})
             e == Event("down", index, smallest, smallest # index, idx, s)
             st1 == [Log(st, e) EXCEPT !.calls = @ + (IF lcall THEN 1 ELSE 0)
                                                 + (IF rcall THEN 1 ELSE 0)]
         IN IF lcall /\ ~InRange(s, index)
            THEN [Log(st, Event("down", index, index, FALSE, {left, index}, s))
                     EXCEPT !.panic = TRUE]
            ELSE IF smallest # index
            THEN down(f, swap(st1, index, smallest), smallest)
            ELSE st1

\* Mutant of Push: the new element is not sifted up.
PushCall_noUp(f, s, element) == Call(Append(s, element))

\* Push: append, then up from the new last index.
PushCall(f, s, element) ==
    LET s1 == Append(s, element) IN up(f, Call(s1), Len(s1) - 1)

\* Mutant of Pop: the new root is not sunk.
PopCall_noDown(f, s) ==
    IF Empty(s) THEN Call(s)
    ELSE LET st1 == swap(Call(s), 0, Len(s) - 1)
         IN IF st1.panic THEN st1
            ELSE [st1 EXCEPT !.heaps = SubSeq(@, 1, Len(@) - 1)]

\* Mutant of Pop: the slice is not truncated.
PopCall_noTruncate(f, s) ==
    IF Empty(s) THEN Call(s)
    ELSE LET st1 == swap(Call(s), 0, Len(s) - 1)
         IN IF Len(st1.heaps) > 0 THEN down(f, st1, 0) ELSE st1

\* Mutant of Pop: the check for an empty heap is missing.
PopCall_noEmptyCheck(f, s) ==
    LET st1 == swap(Call(s), 0, Len(s) - 1)
        st2 == IF st1.panic THEN st1
               ELSE [st1 EXCEPT !.heaps = SubSeq(@, 1, Len(@) - 1)]
    IN IF Len(st2.heaps) > 0 THEN down(f, st2, 0) ELSE st2

\* Pop: nothing on an empty heap; else swap root and last, truncate, and
\* sink the new root when elements remain.
PopCall(f, s) ==
    IF Empty(s) THEN Call(s)
    ELSE LET st1 == swap(Call(s), 0, Len(s) - 1)
             st2 == IF st1.panic THEN st1
                    ELSE [st1 EXCEPT !.heaps = SubSeq(@, 1, Len(@) - 1)]
         IN IF Len(st2.heaps) > 0 THEN down(f, st2, 0) ELSE st2

\* Mutant of Top: returns the last element of the slice.
TopCall_last(s) ==
    IF Empty(s) THEN [Call(s) EXCEPT !.panic = TRUE] @@ [value |-> <<>>]
    ELSE Log(Call(s), Event("top", Len(s) - 1, Len(s) - 1, FALSE,
                            {Len(s) - 1}, s))
            @@ [value |-> <<At(s, Len(s) - 1)>>]

\* Mutant of Top: removes the element it returns, as Pop does.
TopCall_removes(s) ==
    IF Empty(s) THEN [Call(s) EXCEPT !.panic = TRUE] @@ [value |-> <<>>]
    ELSE Log(Call(Tail(s)), Event("top", 0, 0, FALSE, {0}, s))
            @@ [value |-> <<At(s, 0)>>]

\* Top: panics on an empty heap, else returns h.heaps[0]; value is what it
\* returns and heaps the slice it leaves.
TopCall(s) ==
    IF Empty(s) THEN [Call(s) EXCEPT !.panic = TRUE] @@ [value |-> <<>>]
    ELSE Log(Call(s), Event("top", 0, 0, FALSE, {0}, s))
            @@ [value |-> <<At(s, 0)>>]

\* ------------------------------------------------------------- state -----
VARIABLES
    h,          \* the *Heap the constructor returned: "heap", or "nil"
    heaps,      \* h.heaps
    lessFunc,   \* h.lessFunc
    err,        \* the error the constructor returned: "nil" or "error"
    ctor,       \* history: the constructor call that was made
    pushes,     \* history: number of Push calls made
    pops,       \* history: number of Pop calls made
    popsNE,     \* history: number of Pop calls made on a non-empty heap
    shape,      \* history: "new", "pushing" (only pushes so far), "popping"
                \* (pushes, then only pops), "mixed" (anything else)
    last,       \* history: the last call, the slice before it and its outcome
    input,      \* scenario: the bag of values the scenario pushes
    order,      \* scenario: the values pushed so far, in the order pushed
    out,        \* scenario: the values Top returned while draining
    locked,     \* two callers: whether they hold one mutex around each call
    mutex,      \* two callers: the caller that holds the mutex, or 0
    pc,         \* two callers: where each caller is in its call
    loc,        \* two callers: the call and the local variables of each
    oob,        \* two callers: an index out of range was used (a panic)
    start       \* two callers: h.heaps before the two calls began

heapVars == <<h, heaps, lessFunc, err, ctor>>
histVars == <<pushes, pops, popsNE, shape, last>>
scenVars == <<input, order, out>>
concVars == <<locked, mutex, pc, loc, oob, start>>
vars == <<h, heaps, lessFunc, err, ctor, pushes, pops, popsNE, shape, last,
          input, order, out, locked, mutex, pc, loc, oob, start>>

\* The two callers of the concurrent specification.
Threads == {1, 2}

\* The local variables of a caller that has not called anything yet.
NoCall == [op |-> "none", element |-> <<>>, s |-> <<>>, index |-> 0, to |-> 0,
           read |-> <<>>, removes |-> FALSE]

\* No concurrent callers: every call runs alone, from start to end.
NoConc ==
    /\ locked = FALSE
    /\ mutex = 0
    /\ pc = [t \in Threads |-> "idle"]
    /\ loc = [t \in Threads |-> NoCall]
    /\ oob = FALSE
    /\ start = <<>>

Record(op, arg, pre, st, ret) ==
    [op |-> op, arg |-> arg, pre |-> pre, calls |-> st.calls,
     swaps |-> st.swaps, panic |-> st.panic, trace |-> st.trace, ret |-> ret]

\* The state right after the constructor call c = [fn, arg] returned r.
Constructed(c, r) ==
    /\ ctor = c
    /\ h = r.h
    /\ heaps = r.heaps
    /\ lessFunc = r.lessFunc
    /\ err = r.err
    /\ pushes = 0
    /\ pops = 0
    /\ popsNE = 0
    /\ shape = "new"
    /\ last = Record("new", <<>>, <<>>, Call(<<>>), <<>>)

InitNew == Constructed([fn |-> "New", arg |-> "lt"], New)

InitNewAny(less) == Constructed([fn |-> "NewAny", arg |-> less], NewAny(less))

NoScenario ==
    /\ input = EmptyBag
    /\ order = <<>>
    /\ out = <<>>

Init ==
    /\ InitNew \/ \E less \in Comparators \cup {"nil"} : InitNewAny(less)
    /\ NoScenario
    /\ NoConc

\* h.Push(element)
DoPush(element) ==
    /\ h = "heap"
    /\ LET st == PushCall(lessFunc, heaps, element) IN
          /\ heaps' = st.heaps
          /\ last' = Record("Push", <<element>>, heaps, st, <<>>)
    /\ pushes' = pushes + 1
    /\ shape' = CASE shape = "new" -> "pushing"
                  [] shape = "pushing" -> "pushing"
                  [] OTHER -> "mixed"
    /\ UNCHANGED <<h, lessFunc, err, ctor, pops, popsNE>>

\* h.Pop()
DoPop ==
    /\ h = "heap"
    /\ LET st == PopCall(lessFunc, heaps) IN
          /\ heaps' = st.heaps
          /\ last' = Record("Pop", <<>>, heaps, st, <<>>)
    /\ pops' = pops + 1
    /\ popsNE' = IF Empty(heaps) THEN popsNE ELSE popsNE + 1
    /\ shape' = CASE shape = "pushing" -> "popping"
                  [] shape = "popping" -> "popping"
                  [] OTHER -> "mixed"
    /\ UNCHANGED <<h, lessFunc, err, ctor, pushes>>

\* h.Top(); a panic is recorded and the caller recovers from it.
DoTop ==
    /\ h = "heap"
    /\ LET r == TopCall(heaps) IN
          /\ heaps' = r.heaps
          /\ last' = Record("Top", <<>>, heaps, r, r.value)
    /\ UNCHANGED <<h, lessFunc, err, ctor, pushes, pops, popsNE, shape>>

\* h.Empty()
DoEmpty ==
    /\ h = "heap"
    /\ last' = Record("Empty", <<>>, heaps, Call(heaps), <<Empty(heaps)>>)
    /\ UNCHANGED <<heapVars, pushes, pops, popsNE, shape>>

\* h.Size()
DoSize ==
    /\ h = "heap"
    /\ last' = Record("Size", <<>>, heaps, Call(heaps), <<Size(heaps)>>)
    /\ UNCHANGED <<heapVars, pushes, pops, popsNE, shape>>

\* Any sequence of calls on the heap, elements drawn from Values.
Next ==
    \/ \E element \in Values :
          pushes < MaxPush /\ DoPush(element) /\ UNCHANGED <<scenVars, concVars>>
    \/ pops < MaxPop /\ DoPop /\ UNCHANGED <<scenVars, concVars>>
    \/ DoTop /\ UNCHANGED <<scenVars, concVars>>
    \/ DoEmpty /\ UNCHANGED <<scenVars, concVars>>
    \/ DoSize /\ UNCHANGED <<scenVars, concVars>>

Spec == Init /\ [][Next]_vars

\* ---------------------------------------------------------- scenarios ----
\* Push the values of input in any order, then read Top and call Pop in
\* turn until the heap is empty.
Todo == input (-) SeqToBag(order)

ScPush(element) ==
    /\ BagIn(element, Todo)
    /\ DoPush(element)
    /\ order' = Append(order, element)
    /\ UNCHANGED <<input, out, concVars>>

ScTop ==
    /\ Todo = EmptyBag
    /\ ~Empty(heaps)
    /\ last.op # "Top"
    /\ DoTop
    /\ out' = out \o TopCall(heaps).value
    /\ UNCHANGED <<input, order, concVars>>

ScPop ==
    /\ Todo = EmptyBag
    /\ last.op = "Top"
    /\ DoPop
    /\ UNCHANGED <<scenVars, concVars>>

NextScenario ==
    \/ \E element \in BagToSet(Todo) : ScPush(element)
    \/ ScTop
    \/ ScPop

\* Sorted extraction: a heap made by New, any set of distinct values of
\* 1..MaxN pushed in any order.
InitSorted ==
    /\ InitNew
    /\ \E S \in SUBSET (1..MaxN) : input = SetToBag(S)
    /\ order = <<>>
    /\ out = <<>>
    /\ NoConc

SpecSorted == InitSorted /\ [][NextScenario]_vars

\* Custom predicate: a heap made by NewAny with less(a, b) = a > b, and the
\* values 3, 1, 4, 1, 5 pushed in any order.
CustomInput == SetToBag({1, 3, 4, 5}) (+) SetToBag({1})

InitCustom ==
    /\ InitNewAny("gt")
    /\ input = CustomInput
    /\ order = <<>>
    /\ out = <<>>
    /\ NoConc

SpecCustom == InitCustom /\ [][NextScenario]_vars

\* -------------------------------------------------------- two callers ----
\* Two callers each make one call, Push or Pop, on the same heap. The steps
\* of a call are the statements of the source: without the mutex the steps
\* of the two calls interleave; with it a call begins only when the mutex is
\* free and holds it until it returns.

\* The heap that pushing the elements of seq in turn builds.
RECURSIVE Built(_, _)
Built(f, seq) ==
    IF seq = <<>> THEN <<>>
    ELSE PushCall(f, Built(f, SubSeq(seq, 1, Len(seq) - 1)), seq[Len(seq)]).heaps

InitConc ==
    /\ \E seq \in UNION {[1..n -> Values] : n \in 0..MaxInit} :
          /\ Constructed([fn |-> "New", arg |-> "lt"],
                         [New EXCEPT !.heaps = Built("lt", seq)])
          /\ start = Built("lt", seq)
    /\ NoScenario
    /\ locked \in BOOLEAN
    /\ mutex = 0
    /\ pc = [t \in Threads |-> "idle"]
    /\ loc = [t \in Threads |-> NoCall]
    /\ oob = FALSE

Goto(t, label) == pc' = [pc EXCEPT ![t] = label]

\* The call of t returns, and releases the mutex if the callers use it.
Return(t) ==
    /\ Goto(t, "done")
    /\ mutex' = IF locked THEN 0 ELSE mutex

\* The call of t panics on an index out of range.
Panic(t) ==
    /\ Goto(t, "panic")
    /\ oob' = TRUE

\* swap, first half: h.heaps[j] and h.heaps[i] are read.
SwapRead(t, i, j, label) ==
    IF ~(InRange(heaps, i) /\ InRange(heaps, j))
    THEN Panic(t) /\ UNCHANGED <<heaps, loc, mutex>>
    ELSE /\ loc' = [loc EXCEPT ![t].index = i, ![t].to = j,
                               ![t].read = <<At(heaps, i), At(heaps, j)>>]
         /\ Goto(t, label)
         /\ UNCHANGED <<heaps, mutex, oob>>

\* The slice after swap's two assignments of the values read, h.heaps[i]
\* first; an index the slice no longer has is not written.
Written(t) ==
    LET w == swap(Call(loc[t].read), 0, 1).heaps
    IN [k \in 1..Len(heaps) |-> IF k = loc[t].to + 1 THEN w[2]
                                ELSE IF k = loc[t].index + 1 THEN w[1]
                                ELSE heaps[k]]

\* swap, second half: the values read are assigned. If the slice has been
\* truncated below an index since the read, the assignment either panics or
\* writes outside the slice's length.
SwapWrite(t, index, label) ==
    /\ \/ /\ ~(InRange(heaps, loc[t].index) /\ InRange(heaps, loc[t].to))
          /\ Panic(t)
          /\ UNCHANGED <<heaps, loc, mutex>>
       \/ /\ heaps' = Written(t)
          /\ loc' = [loc EXCEPT ![t].index = index]
          /\ Goto(t, label)
          /\ UNCHANGED <<mutex, oob>>

\* t calls h.Push(element).
CallPush(t, element) ==
    /\ pc[t] = "idle"
    /\ locked => mutex = 0
    /\ mutex' = IF locked THEN t ELSE mutex
    /\ loc' = [loc EXCEPT ![t] = [NoCall EXCEPT !.op = "Push",
                                               !.element = <<element>>]]
    /\ Goto(t, "append")
    /\ UNCHANGED <<heaps, oob>>

\* append(h.heaps, element): the slice is read ...
AppendRead(t) ==
    /\ pc[t] = "append"
    /\ loc' = [loc EXCEPT ![t].s = heaps]
    /\ Goto(t, "store")
    /\ UNCHANGED <<heaps, mutex, oob>>

\* ... and h.heaps = the slice read, with the element appended.
AppendWrite(t) ==
    /\ pc[t] = "store"
    /\ heaps' = loc[t].s \o loc[t].element
    /\ Goto(t, "callUp")
    /\ UNCHANGED <<loc, mutex, oob>>

\* h.up(len(h.heaps) - 1)
UpCall(t) ==
    /\ pc[t] = "callUp"
    /\ loc' = [loc EXCEPT ![t].index = Len(heaps) - 1]
    /\ Goto(t, "up")
    /\ UNCHANGED <<heaps, mutex, oob>>

\* up: the check of index and the comparison with the parent, which is the
\* first step of up on the slice as it is now.
UpCompare(t) ==
    /\ pc[t] = "up"
    /\ LET r == up(lessFunc, Call(heaps), loc[t].index) IN
          IF r.trace = <<>>
          THEN Return(t) /\ UNCHANGED <<loc, oob>>
          ELSE LET e == r.trace[1] IN
               IF \E i \in e.idx : ~InRange(heaps, i)
               THEN Panic(t) /\ UNCHANGED <<loc, mutex>>
               ELSE IF e.swapped
               THEN /\ loc' = [loc EXCEPT ![t].to = e.to]
                    /\ Goto(t, "upSwap")
                    /\ UNCHANGED <<mutex, oob>>
               ELSE Return(t) /\ UNCHANGED <<loc, oob>>
    /\ UNCHANGED heaps

\* up: h.swap(index, parent) ...
UpSwap(t) ==
    /\ pc[t] = "upSwap"
    /\ SwapRead(t, loc[t].index, loc[t].to, "upAssign")

\* ... then h.up(parent)
UpAssign(t) ==
    /\ pc[t] = "upAssign"
    /\ SwapWrite(t, loc[t].to, "up")

\* t calls h.Pop().
CallPop(t) ==
    /\ pc[t] = "idle"
    /\ locked => mutex = 0
    /\ mutex' = IF locked THEN t ELSE mutex
    /\ loc' = [loc EXCEPT ![t] = [NoCall EXCEPT !.op = "Pop"]]
    /\ Goto(t, "check")
    /\ UNCHANGED <<heaps, oob>>

\* Pop: if h.Empty() { return }
PopCheck(t) ==
    /\ pc[t] = "check"
    /\ IF Empty(heaps)
       THEN Return(t) /\ UNCHANGED loc
       ELSE /\ loc' = [loc EXCEPT ![t].removes = TRUE]
            /\ Goto(t, "popSwap")
            /\ UNCHANGED mutex
    /\ UNCHANGED <<heaps, oob>>

\* Pop: h.swap(0, len(h.heaps) - 1)
PopSwap(t) ==
    /\ pc[t] = "popSwap"
    /\ SwapRead(t, 0, Len(heaps) - 1, "popAssign")

PopAssign(t) ==
    /\ pc[t] = "popAssign"
    /\ SwapWrite(t, 0, "truncate")

\* Pop: h.heaps = h.heaps[:len(h.heaps) - 1]; slicing to -1 panics.
PopTruncate(t) ==
    /\ pc[t] = "truncate"
    /\ IF Len(heaps) = 0
       THEN Panic(t) /\ UNCHANGED <<heaps, mutex>>
       ELSE /\ heaps' = SubSeq(heaps, 1, Len(heaps) - 1)
            /\ Goto(t, "callDown")
            /\ UNCHANGED <<mutex, oob>>
    /\ UNCHANGED loc

\* Pop: if len(h.heaps) > 0 { h.down(0) }
DownCall(t) ==
    /\ pc[t] = "callDown"
    /\ IF Len(heaps) > 0
       THEN /\ loc' = [loc EXCEPT ![t].index = 0]
            /\ Goto(t, "down")
            /\ UNCHANGED mutex
       ELSE Return(t) /\ UNCHANGED loc
    /\ UNCHANGED <<heaps, oob>>

\* down: the choice of smallest, which is the first step of down on the
\* slice as it is now.
DownCompare(t) ==
    /\ pc[t] = "down"
    /\ LET e == down(lessFunc, Call(heaps), loc[t].index).trace[1] IN
          IF \E i \in e.idx : ~InRange(heaps, i)
          THEN Panic(t) /\ UNCHANGED <<loc, mutex>>
          ELSE IF e.swapped
          THEN /\ loc' = [loc EXCEPT ![t].to = e.to]
               /\ Goto(t, "downSwap")
               /\ UNCHANGED <<mutex, oob>>
          ELSE Return(t) /\ UNCHANGED <<loc, oob>>
    /\ UNCHANGED heaps

\* down: h.swap(index, smallest) ...
DownSwap(t) ==
    /\ pc[t] = "downSwap"
    /\ SwapRead(t, loc[t].index, loc[t].to, "downAssign")

\* ... then h.down(smallest)
DownAssign(t) ==
    /\ pc[t] = "downAssign"
    /\ SwapWrite(t, loc[t].to, "down")

\* A step of a call changes nothing of the heap but the slice.
Frame == UNCHANGED <<h, lessFunc, err, ctor, histVars, scenVars, locked, start>>

NextConc ==
    \/ \E t \in Threads, element \in Values : CallPush(t, element) /\ Frame
    \/ \E t \in Threads : AppendRead(t) /\ Frame
    \/ \E t \in Threads : AppendWrite(t) /\ Frame
    \/ \E t \in Threads : UpCall(t) /\ Frame
    \/ \E t \in Threads : UpCompare(t) /\ Frame
    \/ \E t \in Threads : UpSwap(t) /\ Frame
    \/ \E t \in Threads : UpAssign(t) /\ Frame
    \/ \E t \in Threads : CallPop(t) /\ Frame
    \/ \E t \in Threads : PopCheck(t) /\ Frame
    \/ \E t \in Threads : PopSwap(t) /\ Frame
    \/ \E t \in Threads : PopAssign(t) /\ Frame
    \/ \E t \in Threads : PopTruncate(t) /\ Frame
    \/ \E t \in Threads : DownCall(t) /\ Frame
    \/ \E t \in Threads : DownCompare(t) /\ Frame
    \/ \E t \in Threads : DownSwap(t) /\ Frame
    \/ \E t \in Threads : DownAssign(t) /\ Frame

SpecConc == InitConc /\ [][NextConc]_vars

\* ------------------------------------------------------------- claims ----
\* No child strictly precedes its parent in the slice s under f.
HeapOrdered(f, s) ==
    \A i \in 0..(Len(s) - 1) : \A c \in {2 * i + 1, 2 * i + 2} :
        c < Len(s) => ~ApplyLess(f, At(s, c), At(s, i))

\* The values the heap of this run can hold.
Stored == Values \cup BagToSet(input)

Max(S) == CHOOSE m \in S : \A x \in S : x <= m

\* C1: with a strict weak order as the predicate, after any sequence of
\* Push and Pop calls no child strictly precedes its parent.
C1_HeapProperty ==
    (h = "heap" /\ IsStrictWeakOrder(lessFunc, Stored))
    => HeapOrdered(lessFunc, heaps)

\* C1 witness: a Pop whose sift-down swapped has left four or more elements
\* in a heap ordered by a strict weak order with ties.
C1_Witness ==
    /\ h = "heap"
    /\ lessFunc = "div2"
    /\ IsStrictWeakOrder(lessFunc, Stored)
    /\ last.op = "Pop"
    /\ last.swaps >= 2
    /\ Len(heaps) >= 4

\* C2: with a strict weak order as the predicate, Top on a non-empty heap
\* returns a stored element that no stored element strictly precedes.
C2_TopIsMinimum ==
    (/\ h = "heap"
     /\ IsStrictWeakOrder(lessFunc, Stored)
     /\ last.op = "Top"
     /\ Len(last.pre) > 0)
    => /\ ~last.panic
       /\ Len(last.ret) = 1
       /\ last.ret[1] \in Elems(heaps)
       /\ \A x \in Elems(heaps) : ~ApplyLess(lessFunc, x, last.ret[1])

\* C2 witness: Top read on a heap of three or more elements, not all
\* equivalent, after pushes and at least one Pop that removed an element.
C2_Witness ==
    /\ h = "heap"
    /\ IsStrictWeakOrder(lessFunc, Stored)
    /\ last.op = "Top"
    /\ ~last.panic
    /\ Len(heaps) >= 3
    /\ popsNE >= 1
    /\ \E x \in Elems(heaps) : ApplyLess(lessFunc, last.ret[1], x)

\* The scenario has pushed all of its input and drained the heap.
Drained == Todo = EmptyBag /\ Empty(heaps)

\* C3: n distinct values pushed in any order into a heap made by New and
\* then read by Top and removed by Pop n times come out in non-decreasing
\* order, and the values read are exactly the values pushed.
C3_SortedExtraction ==
    /\ \A i \in 1..(Len(out) - 1) : ~(out[i + 1] < out[i])
    /\ Drained => (Len(out) = Len(order) /\ SeqToBag(out) = input)

\* C3 witness: three or more distinct values, pushed in an order that is
\* not the sorted one, have all been read and removed.
C3_Witness ==
    /\ ctor.fn = "New"
    /\ Drained
    /\ Len(out) >= 3
    /\ SeqToBag(order) = input
    /\ order # out

\* C4: Size() is the number of Push calls minus the number of Pop calls
\* made on a non-empty heap, is never negative, and Empty() is true exactly
\* when Size() is 0.
C4_SizeConsistency ==
    h = "heap" =>
       /\ Size(heaps) = pushes - popsNE
       /\ Size(heaps) >= 0
       /\ Empty(heaps) <=> (Size(heaps) = 0)
       /\ last.op = "Size" => last.ret = <<pushes - popsNE>>
       /\ last.op = "Empty" => last.ret = <<pushes - popsNE = 0>>

\* C4 witness: Size() read after pushes, pops that removed elements and a
\* pop on the empty heap, with elements stored.
C4_Witness ==
    /\ last.op = "Size"
    /\ pushes >= 3
    /\ popsNE >= 2
    /\ pops > popsNE
    /\ last.ret[1] >= 1

\* C5: Pop on a non-empty heap removes one occurrence of the element Top
\* returned before it and nothing else; Push(e) adds one occurrence of e and
\* removes nothing.
C5_PopRemovesRoot ==
    /\ (last.op = "Pop" /\ Len(last.pre) > 0)
       => SeqToBag(heaps) (+) SetToBag({TopCall(last.pre).value[1]})
             = SeqToBag(last.pre)
    /\ last.op = "Push"
       => SeqToBag(heaps) = SeqToBag(last.pre) (+) SetToBag({last.arg[1]})

\* C5 witness: a Pop on a heap of four or more elements, some of them
\* equal, whose sift-down swapped.
C5_Witness ==
    /\ last.op = "Pop"
    /\ Len(last.pre) >= 4
    /\ last.swaps >= 2
    /\ Cardinality(Elems(last.pre)) < Len(last.pre)

\* C6: Pop on an empty heap does not panic, leaves the slice empty and
\* unchanged, and makes no call of the predicate.
C6_EmptyPopNoOp ==
    (last.op = "Pop" /\ Len(last.pre) = 0)
    => /\ ~last.panic
       /\ heaps = last.pre
       /\ Size(heaps) = 0
       /\ last.calls = 0

\* C6 witness: a second Pop on a heap that Pop calls had drained to empty.
C6_Witness ==
    /\ last.op = "Pop"
    /\ Len(last.pre) = 0
    /\ popsNE >= 1
    /\ popsNE = pushes
    /\ pops >= popsNE + 2

\* C7: Top panics exactly when the heap is empty at the call; on a
\* non-empty heap it returns h.heaps[0].
C7_TopPanicsIffEmpty ==
    last.op = "Top"
    => /\ last.panic <=> (Len(last.pre) = 0)
       /\ ~last.panic => last.ret = <<At(last.pre, 0)>>

\* C7 witness: Top panicked on a heap that Pop calls had drained to empty.
C7_Witness ==
    /\ last.op = "Top"
    /\ last.panic
    /\ popsNE >= 1
    /\ Len(heaps) = 0

\* The heap has not been used since it was constructed.
Fresh == last.op = "new"

\* C8: NewAny(nil) returns a nil heap and a non-nil error; NewAny with a
\* predicate returns a non-nil empty heap and a nil error; New returns a
\* non-nil empty heap ordered by a < b.
C8_Construction ==
    /\ (ctor.fn = "NewAny" /\ ctor.arg = "nil")
       => (h = "nil" /\ err # "nil")
    /\ (ctor.fn = "NewAny" /\ ctor.arg # "nil")
       => /\ h = "heap"
          /\ err = "nil"
          /\ lessFunc = ctor.arg
          /\ Fresh => (Size(heaps) = 0 /\ Empty(heaps))
    /\ ctor.fn = "New"
       => /\ h = "heap"
          /\ \A a, b \in Stored : ApplyLess(lessFunc, a, b) <=> a < b
          /\ Fresh => (Size(heaps) = 0 /\ Empty(heaps))

\* C8 witness: NewAny(nil) has returned.
C8_Witness ==
    /\ ctor.fn = "NewAny"
    /\ ctor.arg = "nil"
    /\ h = "nil"
    /\ err = "error"

\* C9: with less(a, b) = a > b and 3, 1, 4, 1, 5 pushed in any order, the
\* first Top is 5 and the Top after one Pop is 4; every Top is the maximum
\* of the stored elements.
C9_CustomPredicate ==
    /\ Len(out) >= 1 => out[1] = 5
    /\ Len(out) >= 2 => out[2] = 4
    /\ last.op = "Top" => last.ret = <<Max(Elems(heaps))>>

\* C9 witness: 3, 1, 4, 1, 5 were pushed in this order, and Top was read
\* before and after one Pop.
C9_Witness ==
    /\ lessFunc = "gt"
    /\ order = <<3, 1, 4, 1, 5>>
    /\ Len(out) = 2
    /\ pops = 1

\* C10: after n >= 1 pushes on a new heap Empty() is false from the first
\* Push on, and after n Pop calls following them Empty() is true and Size()
\* is 0.
C10_RoundTrip ==
    h = "heap" =>
       /\ shape = "pushing" => ~Empty(heaps)
       /\ (shape = "popping" /\ pops = pushes)
          => (Empty(heaps) /\ Size(heaps) = 0)
       /\ (shape \in {"pushing", "popping"} /\ last.op = "Empty")
          => last.ret = <<pops >= pushes>>

\* C10 witness: three or more pushes on a new heap, then as many pops.
C10_Witness ==
    /\ shape = "popping"
    /\ pushes >= 3
    /\ pops = pushes
    /\ last.op = "Pop"

\* The calls that only read the heap.
Reads == {"Top", "Empty", "Size"}

\* C11: Top on a non-empty heap, Empty and Size leave the slice (contents
\* and order) and the predicate as they were.
C11_ReadOnly ==
    (/\ h = "heap"
     /\ last.op \in Reads
     /\ last.op = "Top" => Len(last.pre) > 0)
    => /\ heaps = last.pre
       /\ lessFunc = ctor.arg

\* C11 witness: Top was read on a heap of three or more elements that four
\* or more pushes and a pop had built.
C11_Witness ==
    /\ last.op = "Top"
    /\ ~last.panic
    /\ Len(last.pre) >= 3
    /\ pushes >= 4
    /\ popsNE >= 1

\* The steps of kind ev in the trace of the last call, as indices of it.
Steps(ev) == {k \in DOMAIN last.trace : last.trace[k].ev = ev}

\* f never holds in both directions on S.
Asymmetric(f, S) == \A a, b \in S : ApplyLess(f, a, b) => ~ApplyLess(f, b, a)

\* At step k of the last call down found both children in bounds and both
\* strictly preceding the element at its index.
BothPrecede(k) ==
    LET e == last.trace[k]
        s == e.heaps
        left == 2 * e.index + 1
        right == 2 * e.index + 2
    IN /\ right < Len(s)
       /\ ApplyLess(lessFunc, At(s, left), At(s, e.index))
       /\ ApplyLess(lessFunc, At(s, right), At(s, e.index))

\* Step k of down swapped the parent with the right child exactly when
\* less(right, left) held, and with the left child otherwise.
PicksBest(k) ==
    LET e == last.trace[k]
        s == e.heaps
        left == 2 * e.index + 1
        right == 2 * e.index + 2
        pick == IF ApplyLess(lessFunc, At(s, right), At(s, left))
                THEN right ELSE left
    IN /\ e.swapped
       /\ e.to = pick
       /\ k + 1 \in Steps("swap")
       /\ last.trace[k + 1].index = e.index
       /\ last.trace[k + 1].to = pick

\* In the slice that the swap of step k left, neither child strictly
\* precedes the new parent.
NeitherPrecedesAfter(k) ==
    LET e == last.trace[k]
        s == last.trace[k + 2].heaps
        left == 2 * e.index + 1
        right == 2 * e.index + 2
    IN /\ ~ApplyLess(lessFunc, At(s, left), At(s, e.index))
       /\ ~ApplyLess(lessFunc, At(s, right), At(s, e.index))

\* C12 as stated: when both children are in bounds and strictly precede the
\* parent, down swaps the parent with the right child exactly when
\* less(right, left) holds and with the left child otherwise, and after the
\* swap neither child strictly precedes the new parent.
C12_AsStated ==
    h = "heap" =>
       \A k \in Steps("down") :
          BothPrecede(k) => (PicksBest(k) /\ NeitherPrecedesAfter(k))

\* C12 amended: the choice of the child is as stated for every predicate;
\* that neither child strictly precedes the new parent after the swap holds
\* when the predicate is asymmetric.
C12_ChildSelection ==
    h = "heap" =>
       \A k \in Steps("down") :
          BothPrecede(k) =>
             /\ PicksBest(k)
             /\ Asymmetric(lessFunc, Stored) => NeitherPrecedesAfter(k)

\* C12 witness: in a Pop, down found both children preceding the parent and
\* the right child preceding the left one.
C12_Witness ==
    /\ h = "heap"
    /\ Asymmetric(lessFunc, Stored)
    /\ last.op = "Pop"
    /\ \E k \in Steps("down") :
          /\ BothPrecede(k)
          /\ last.trace[k].to = 2 * last.trace[k].index + 2
          /\ NeitherPrecedesAfter(k)

\* The swaps that up and down made in the last call: every swap step of a
\* Push, and every swap step of a Pop but its first, which exchanges the
\* root and the last element.
SiftSwaps == {j \in Steps("swap") : last.op = "Pop" => j > 1}

\* The up or down step that made the swap at step j of the trace.
Cause(j) == last.trace[j - 1]
ChildOf(e) == IF e.ev = "up" THEN e.index ELSE e.to
ParentOf(e) == IF e.ev = "up" THEN e.to ELSE e.index

\* The swap at step j was made by an up or down step and exchanged the
\* child and the parent of that step.
SwapOfSift(j) ==
    /\ j > 1
    /\ Cause(j).ev \in {"up", "down"}
    /\ Cause(j).swapped
    /\ {last.trace[j].index, last.trace[j].to}
          = {ChildOf(Cause(j)), ParentOf(Cause(j))}

\* less(child, parent) held when the swap at step j was decided.
ChildPrecedes(j) ==
    LET e == Cause(j) IN
    ApplyLess(lessFunc, At(e.heaps, ChildOf(e)), At(e.heaps, ParentOf(e)))

\* The swap at step j was made by down with the right child, which strictly
\* preceded the left child, which strictly preceded the parent.
RightViaLeft(j) ==
    LET e == Cause(j)
        s == e.heaps
        left == 2 * e.index + 1
    IN /\ e.ev = "down"
       /\ e.to = 2 * e.index + 2
       /\ ApplyLess(lessFunc, At(s, e.to), At(s, left))
       /\ ApplyLess(lessFunc, At(s, left), At(s, e.index))

\* The element pushed by the last call does not strictly precede the
\* element at its parent index (or has no parent).
PushedDoesNotPrecede ==
    LET n == Len(last.pre) IN
    n = 0 \/ ~ApplyLess(lessFunc, last.arg[1], At(last.pre, (n - 1) \div 2))

\* A Push of an element that does not precede its parent appends it and
\* moves nothing.
PushStays ==
    (last.op = "Push" /\ PushedDoesNotPrecede)
    => (heaps = Append(last.pre, last.arg[1]) /\ SiftSwaps = {})

\* C13 as stated: up and down swap only when less(child, parent) is true;
\* a Push of an element that does not strictly precede its parent leaves it
\* at the last index and every other element where it was.
C13_AsStated ==
    h = "heap" =>
       /\ \A j \in SiftSwaps : SwapOfSift(j) /\ ChildPrecedes(j)
       /\ PushStays

\* C13 amended: up swaps only when less(child, parent) is true; down swaps
\* only when less(child, parent) is true or, for the right child, when
\* less(right, left) and less(left, parent) are true; so with a transitive
\* predicate every swap has less(child, parent) true. The statement about
\* Push is as stated.
C13_NoSwapOnTie ==
    h = "heap" =>
       /\ \A j \in SiftSwaps :
             /\ SwapOfSift(j)
             /\ ChildPrecedes(j) \/ RightViaLeft(j)
             /\ Cause(j).ev = "up" => ChildPrecedes(j)
             /\ IsStrictWeakOrder(lessFunc, Stored) => ChildPrecedes(j)
       /\ PushStays

\* C13 witness: a Push onto three or more elements of an element of equal
\* priority to its parent (less is false both ways) and different from it.
C13_Witness ==
    /\ h = "heap"
    /\ last.op = "Push"
    /\ Len(last.pre) >= 3
    /\ LET parent == At(last.pre, (Len(last.pre) - 1) \div 2) IN
          /\ last.arg[1] # parent
          /\ ~ApplyLess(lessFunc, last.arg[1], parent)
          /\ ~ApplyLess(lessFunc, parent, last.arg[1])
    /\ heaps = Append(last.pre, last.arg[1])

\* The steps of kind ev after step k of the last call.
Later(ev, k) == {j \in Steps(ev) : j > k}
IsLast(ev, k) == Later(ev, k) = {}
NextStep(ev, k) == CHOOSE j \in Later(ev, k) : \A i \in Later(ev, k) : j <= i

\* up: each step has 0 <= parent < index; a step that swapped and is not at
\* the root yet is followed by a step at the parent, and no other step is
\* followed by one.
UpDescends ==
    \A k \in Steps("up") :
       LET e == last.trace[k] IN
       /\ 0 <= e.to /\ e.to < e.index
       /\ (e.swapped /\ e.to > 0)
          => (~IsLast("up", k) /\ last.trace[NextStep("up", k)].index = e.to)
       /\ ~(e.swapped /\ e.to > 0) => IsLast("up", k)

\* down: a step that swapped chose a child, index < smallest < len, and is
\* followed by a step at that child; a step that did not swap is the last,
\* and no child of it in bounds strictly precedes it.
DownAscends ==
    \A k \in Steps("down") :
       LET e == last.trace[k]
           s == e.heaps
       IN
       /\ e.swapped
          => /\ e.index < e.to /\ e.to < Len(s)
             /\ ~IsLast("down", k)
             /\ last.trace[NextStep("down", k)].index = e.to
       /\ ~e.swapped
          => /\ IsLast("down", k)
             /\ \A c \in {2 * e.index + 1, 2 * e.index + 2} :
                   c < Len(s) => ~ApplyLess(lessFunc, At(s, c), At(s, e.index))

\* C14: every Push and Pop returns, for every predicate: the index of up
\* strictly decreases from step to step and up stops at index 0 at the
\* latest; the index of down strictly increases and down stops once no
\* child in bounds strictly precedes the element at it.
C14_Termination ==
    (h = "heap" /\ last.op \in {"Push", "Pop"})
    => /\ UpDescends
       /\ DownAscends
       /\ Len(last.trace) <= 3 * (Len(last.pre) + 1)
       /\ last.op = "Push" => Len(heaps) = Len(last.pre) + 1
       /\ (last.op = "Pop" /\ Len(last.pre) > 0)
          => Len(heaps) = Len(last.pre) - 1

\* C14 witness: under a predicate that is not transitive, a Pop whose down
\* ran three steps has returned.
C14_Witness ==
    /\ h = "heap"
    /\ ~IsStrictWeakOrder(lessFunc, Stored)
    /\ last.op = "Pop"
    /\ Cardinality(Steps("down")) >= 3
    /\ Len(heaps) = Len(last.pre) - 1

Irreflexive(f, S) == \A a \in S : ~ApplyLess(f, a, a)

Transitive(f, S) ==
    \A a, b, c \in S :
       ApplyLess(f, a, b) /\ ApplyLess(f, b, c) => ApplyLess(f, a, c)

Incomparable(f, a, b) == ~ApplyLess(f, a, b) /\ ~ApplyLess(f, b, a)

IncomparabilityTransitive(f, S) ==
    \A a, b, c \in S :
       Incomparable(f, a, b) /\ Incomparable(f, b, c) => Incomparable(f, a, c)

\* C15 as stated: an irreflexive predicate (every predicate of the model is
\* deterministic) is enough for the heap property to hold after any
\* sequence of Push and Pop calls.
C15_AsStated ==
    (h = "heap" /\ Irreflexive(lessFunc, Stored))
    => HeapOrdered(lessFunc, heaps)

\* C15 amended: irreflexivity and determinism are enough together with
\* transitivity of less and of incomparability (a strict weak order).
C15_Sufficient ==
    (/\ h = "heap"
     /\ Irreflexive(lessFunc, Stored)
     /\ Transitive(lessFunc, Stored)
     /\ IncomparabilityTransitive(lessFunc, Stored))
    => HeapOrdered(lessFunc, heaps)

\* C15 witness: under a transitive predicate with ties, a Push that moved
\* the new element up two levels, after a Pop.
C15_Witness ==
    /\ h = "heap"
    /\ lessFunc = "div2"
    /\ Transitive(lessFunc, Stored)
    /\ IncomparabilityTransitive(lessFunc, Stored)
    /\ last.op = "Push"
    /\ popsNE >= 1
    /\ Cardinality(SiftSwaps) >= 2

RECURSIVE Log2Floor(_)
Log2Floor(n) == IF n <= 1 THEN 0 ELSE 1 + Log2Floor(n \div 2)

\* C16: a Push that leaves n elements makes at most floor(log2(n)) swaps
\* and predicate calls in up; a Pop that leaves n >= 1 elements makes at
\* most floor(log2(n)) swaps in down; the recursion of up and down is no
\* deeper than the tree is high.
C16_LogarithmicWork ==
    h = "heap" =>
       LET n == Len(heaps) IN
       /\ last.op = "Push"
          => /\ Cardinality(SiftSwaps) <= Log2Floor(n)
             /\ last.calls <= Log2Floor(n)
             /\ Cardinality(Steps("up")) <= Log2Floor(n)
       /\ (last.op = "Pop" /\ n >= 1)
          => /\ Cardinality(SiftSwaps) <= Log2Floor(n)
             /\ Cardinality(Steps("down")) <= Log2Floor(n) + 1

\* C16 witness: a Pop that left four or more elements and whose down made
\* floor(log2(n)) swaps, two or more.
C16_Witness ==
    /\ h = "heap"
    /\ last.op = "Pop"
    /\ Len(heaps) >= 4
    /\ Cardinality(SiftSwaps) = Log2Floor(Len(heaps))

\* C17: every index of h.heaps that Top, swap, up and down read or write is
\* in 0 .. len - 1 of the slice at that time, and the only panic is the one
\* of Top on an empty heap.
C17_IndexSafety ==
    h = "heap" =>
       /\ \A k \in DOMAIN last.trace :
             \A i \in last.trace[k].idx : InRange(last.trace[k].heaps, i)
       /\ last.panic => (last.op = "Top" /\ Len(last.pre) = 0)

\* C17 witness: a Pop whose down, below the root, read the last element of
\* the slice.
C17_Witness ==
    /\ h = "heap"
    /\ last.op = "Pop"
    /\ \E k \in Steps("down") :
          /\ last.trace[k].index > 0
          /\ (Len(last.trace[k].heaps) - 1) \in last.trace[k].idx


\* No call is in progress: each caller has not begun, has returned or has
\* panicked.
Quiescent == \A t \in Threads : pc[t] \in {"idle", "done", "panic"}

\* The elements the callers' Push calls were given.
RECURSIVE Pushed(_)
Pushed(T) ==
    IF T = {} THEN EmptyBag
    ELSE LET t == CHOOSE x \in T : TRUE
         IN (IF loc[t].op = "Push" THEN SeqToBag(loc[t].element) ELSE EmptyBag)
            (+) Pushed(T \ {t})

\* The number of elements the callers' calls leave: one more for each Push,
\* one fewer for each Pop that found the heap non-empty.
Expected ==
    Len(start) + Cardinality({t \in Threads : loc[t].op = "Push"})
               - Cardinality({t \in Threads : loc[t].removes})

HeapPropertyViolated == Quiescent /\ ~HeapOrdered(lessFunc, heaps)

ElementLost == Quiescent /\ ~oob /\ Len(heaps) < Expected

ElementDuplicated ==
    Quiescent /\ ~(SeqToBag(heaps) \sqsubseteq (SeqToBag(start) (+) Pushed(Threads)))

OutOfRangeAccess == oob

BadState ==
    HeapPropertyViolated \/ ElementLost \/ ElementDuplicated \/ OutOfRangeAccess

\* C18: when every call of the two callers runs under one caller-held
\* mutex, no bad state is reachable: no index is accessed out of range and,
\* when no call is in progress, the heap property holds, no element is
\* duplicated and the size is the one the calls leave. Without the mutex
\* the steps of the calls interleave and a bad state is reachable.
C18_MutexExcludesBadStates ==
    locked => /\ ~BadState
              /\ Quiescent => Len(heaps) = Expected
              /\ Cardinality({t \in Threads : pc[t] \notin {"idle", "done"}}) <= 1

\* Without the mutex two interleaved calls have returned and left a slice
\* in which a child precedes its parent.
C18_Witness == ~locked /\ ~oob /\ HeapPropertyViolated

\* The other bad states of the interleaved calls.
C18_Lost == ~locked /\ ElementLost
C18_Duplicated == ~locked /\ ElementDuplicated
C18_OutOfRange == ~locked /\ OutOfRangeAccess
\* Under the mutex both calls run to their return.
C18_LockedDone == locked /\ \A t \in Threads : pc[t] = "done" /\ loc[t].op # "none"

============================================================================
